---- MODULE Spec2Model ----
(***************************************************************************)
(* State-machine model of the two zustand stores of the repository         *)
(*   src/src/stores/auth.store.ts     (useAuthStore, fakeLoginApi)         *)
(*   src/src/stores/counter.store.ts  (useCounterStore)                    *)
(* and of the two views that drive them:                                   *)
(*   src/src/CounterPanel.tsx         (CounterPanel, AuthPanel)            *)
(*                                                                         *)
(* JavaScript values are represented as follows.                           *)
(*   null           the empty tuple  Null == << >>                         *)
(*   a string kept in a nullable field (error)  the 1-tuple  Str(s)        *)
(*   an object      a record                                               *)
(* so that null, the empty string Str("") and every object are pairwise    *)
(* distinct, as they are in the program.  The Korean string literals of    *)
(* the source are written in ASCII; distinct literals stay distinct.       *)
(***************************************************************************)
EXTENDS Integers, Sequences, FiniteSets, TLC

VARIABLES
    auth,      \* state of useAuthStore: user, isAuthenticated, isLoading, error
    counter,   \* state of useCounterStore: count
    timers,    \* pending setTimeout callbacks of fakeLoginApi, in firing order
    promise,   \* promise[i]: state of the promise returned by the i-th login call
    last       \* the store operation performed by the last step, with its
               \* argument and the state it started from

vars == <<auth, counter, timers, promise, last>>

-----------------------------------------------------------------------------
(* Bounds of the model                                                     *)

\* number of login calls made in one behaviour
MaxLogins == 3
\* counts explored are -MaxCount .. MaxCount
MaxCount == 2
\* arguments of increaseBy are -MaxBy .. MaxBy
MaxBy == 2

-----------------------------------------------------------------------------
(* Values                                                                  *)

Null == << >>

Str(s) == <<s>>

\* Boolean(v) of auth.store.ts:166 for v an object or null
Boolean(v) == v # Null

\* the hardcoded test account of fakeLoginApi
RefEmail == "test@test.com"

RefPassword == "1234"

RefInput == [email |-> RefEmail, password |-> RefPassword]

RefUser == [id |-> "u_1", name |-> "TestUser", email |-> RefEmail]

\* a user that did not come from fakeLoginApi (a rehydrated session)
OtherUser == [id |-> "u_2", name |-> "Other", email |-> "other@test.com"]

Emails == {RefEmail, "x@x.com"}

Passwords == {RefPassword, "wrong"}

\* the LoginInput values login is called with
LoginInputs == [email : Emails, password : Passwords]

\* the User | null values setUser is called with
SetUserArgs == {Null, RefUser, OtherUser}

\* message of the Error fakeLoginApi rejects with
InvalidCredentialsMessage == Str("email or password is not correct")

\* fallback message of login's catch block
UnknownErrorMessage == Str("unknown error during login")

-----------------------------------------------------------------------------
(* The state container                                                     *)

\* set(partial): shallow merge of the partial object over the state.  The
\* form set(fn) calls fn on the current state to obtain the partial object;
\* it is written set(state, fn(state)) below.
set(state, partial) ==
    [k \in DOMAIN state |-> IF k \in DOMAIN partial THEN partial[k] ELSE state[k]]

\* initial state objects of the two stores
InitialAuthState ==
    [user |-> Null, isAuthenticated |-> FALSE, isLoading |-> FALSE, error |-> Null]

InitialCounterState == [count |-> 0]

-----------------------------------------------------------------------------
(* fakeLoginApi and the patches of useAuthStore                            *)

\* the settlement of the promise of fakeLoginApi(input) when its timer fires
fakeLoginApi(input) ==
    IF input.email = RefEmail /\ input.password = RefPassword
    THEN [resolved |-> TRUE,
          value |-> [id |-> "u_1", name |-> "TestUser", email |-> input.email]]
    ELSE [resolved |-> FALSE,
          reason |-> [isError |-> TRUE, message |-> InvalidCredentialsMessage]]

\* message computed by the catch block from the caught value e
CatchMessage(e) == IF e.isError THEN e.message ELSE UnknownErrorMessage

\* a login start that leaves the previous error in place
LoginStartPatch_KeepsError == [isLoading |-> TRUE]

\* a login start that also drops the current session
LoginStartPatch_DropsUser ==
    [user |-> Null, isAuthenticated |-> FALSE, isLoading |-> TRUE, error |-> Null]

LoginStartPatch == [isLoading |-> TRUE, error |-> Null]

\* a success patch that forgets to mark the session authenticated
LoginSuccessPatch_NotAuthenticated(u) == [user |-> u, isLoading |-> FALSE]

\* a success patch that forgets to end the loading state
LoginSuccessPatch_StillLoading(u) == [user |-> u, isAuthenticated |-> TRUE]

LoginSuccessPatch(u) == [user |-> u, isAuthenticated |-> TRUE, isLoading |-> FALSE]

\* a failure patch that forgets to end the loading state
LoginFailurePatch_StillLoading(message) ==
    [user |-> Null, isAuthenticated |-> FALSE, error |-> message]

LoginFailurePatch(message) ==
    [user |-> Null, isAuthenticated |-> FALSE, isLoading |-> FALSE, error |-> message]

\* a logout that leaves the error message in place
LogoutPatch_KeepsError == [user |-> Null, isAuthenticated |-> FALSE]

LogoutPatch == [user |-> Null, isAuthenticated |-> FALSE, error |-> Null]

\* setUser that marks the session authenticated whatever the user is
SetUserPatch_AlwaysAuthenticated(u) == [user |-> u, isAuthenticated |-> TRUE]

\* setUser that also clears the error message
SetUserPatch_ClearsError(u) ==
    [user |-> u, isAuthenticated |-> Boolean(u), error |-> Null]

\* setUser that ignores a null argument instead of dropping the user
SetUserPatch_IgnoresNull(u) ==
    IF u = Null THEN [isAuthenticated |-> FALSE]
    ELSE [user |-> u, isAuthenticated |-> TRUE]

SetUserPatch(u) == [user |-> u, isAuthenticated |-> Boolean(u)]

\* a clearError that also ends the loading state
ClearErrorPatch_StopsLoading == [error |-> Null, isLoading |-> FALSE]

ClearErrorPatch == [error |-> Null]

\* the state login's continuation writes once fakeLoginApi(input) has settled
LoginSettle(state, input) ==
    LET r == fakeLoginApi(input)
    IN  IF r.resolved
        THEN set(state, LoginSuccessPatch(r.value))
        ELSE set(state, LoginFailurePatch(CatchMessage(r.reason)))

\* login without its catch block: a rejection of fakeLoginApi propagates
LoginOutcome_Rethrows(input) ==
    IF fakeLoginApi(input).resolved THEN "fulfilled" ELSE "rejected"

\* state of the promise returned by login once its continuation has run:
\* the try block catches every rejection of fakeLoginApi and set never throws
LoginOutcome(input) == "fulfilled"

-----------------------------------------------------------------------------
(* The patches of useCounterStore                                          *)

IncreasePatch(state) == [count |-> state.count + 1]

\* a decrease that stops at zero
DecreasePatch_Floored(state) ==
    [count |-> IF state.count > 0 THEN state.count - 1 ELSE 0]

DecreasePatch(state) == [count |-> state.count - 1]

\* increaseBy builds its literal patch from get(), the current state
IncreaseByPatch(by) == [count |-> counter.count + by]

ResetPatch == [count |-> 0]

\* a canDecrease that also allows a decrease at zero
canDecrease_AtZero == counter.count >= 0

canDecrease == counter.count > 0

-----------------------------------------------------------------------------
(* Initial state and steps                                                 *)

Pre == [auth |-> auth, counter |-> counter]

\* record of a step: the operation, the login call it belongs to (0 if none),
\* its argument, whether that login call was made while another login was
\* in flight, and the state the step started from
Step(op, id, arg, overlapped) ==
    [op |-> op, id |-> id, arg |-> arg, overlapped |-> overlapped, pre |-> Pre]

Init ==
    /\ auth = InitialAuthState
    /\ counter = InitialCounterState
    /\ timers = << >>
    /\ promise = << >>
    /\ last = Step("create", 0, Null, FALSE)

\* login(input) up to its await: the first set, then fakeLoginApi arms its timer
LoginStart ==
    \E input \in LoginInputs :
        /\ Len(promise) < MaxLogins
        /\ auth' = set(auth, LoginStartPatch)
        /\ timers' = Append(timers, [id |-> Len(promise) + 1, input |-> input,
                                      overlapped |-> timers # << >>])
        /\ promise' = Append(promise, "pending")
        /\ last' = Step("loginStart", Len(promise) + 1, input, timers # << >>)
        /\ UNCHANGED counter

\* the oldest timer fires, fakeLoginApi settles its promise, and the
\* continuation of the awaiting login runs in the same turn
LoginComplete ==
    /\ timers # << >>
    /\ LET t == Head(timers)
       IN  /\ auth' = LoginSettle(auth, t.input)
           /\ promise' = [promise EXCEPT ![t.id] = LoginOutcome(t.input)]
           /\ last' = Step("loginComplete", t.id, t.input, t.overlapped)
    /\ timers' = Tail(timers)
    /\ UNCHANGED counter

\* a logout that also writes the counter store
Logout_ResetsCounter ==
    /\ auth' = set(auth, LogoutPatch)
    /\ counter' = set(counter, ResetPatch)
    /\ last' = Step("logout", 0, Null, FALSE)
    /\ UNCHANGED <<timers, promise>>

Logout ==
    /\ auth' = set(auth, LogoutPatch)
    /\ last' = Step("logout", 0, Null, FALSE)
    /\ UNCHANGED <<counter, timers, promise>>

SetUser ==
    \E u \in SetUserArgs :
        /\ auth' = set(auth, SetUserPatch(u))
        /\ last' = Step("setUser", 0, u, FALSE)
        /\ UNCHANGED <<counter, timers, promise>>

ClearError ==
    /\ auth' = set(auth, ClearErrorPatch)
    /\ last' = Step("clearError", 0, Null, FALSE)
    /\ UNCHANGED <<counter, timers, promise>>

Increase ==
    /\ counter.count < MaxCount
    /\ counter' = set(counter, IncreasePatch(counter))
    /\ last' = Step("increase", 0, Null, FALSE)
    /\ UNCHANGED <<auth, timers, promise>>

Decrease ==
    /\ counter.count > -MaxCount
    /\ counter' = set(counter, DecreasePatch(counter))
    /\ last' = Step("decrease", 0, Null, FALSE)
    /\ UNCHANGED <<auth, timers, promise>>

IncreaseBy ==
    \E by \in -MaxBy .. MaxBy :
        /\ counter.count + by \in -MaxCount .. MaxCount
        /\ counter' = set(counter, IncreaseByPatch(by))
        /\ last' = Step("increaseBy", 0, by, FALSE)
        /\ UNCHANGED <<auth, timers, promise>>

Reset ==
    /\ counter' = set(counter, ResetPatch)
    /\ last' = Step("reset", 0, Null, FALSE)
    /\ UNCHANGED <<auth, timers, promise>>

\* a call of canDecrease(): reads get().count and returns the comparison
CanDecrease ==
    /\ last' = Step("canDecrease", 0, canDecrease, FALSE)
    /\ UNCHANGED <<auth, counter, timers, promise>>

Next ==
    \/ LoginStart
    \/ LoginComplete
    \/ Logout
    \/ SetUser
    \/ ClearError
    \/ Increase
    \/ Decrease
    \/ IncreaseBy
    \/ Reset
    \/ CanDecrease

Spec == Init /\ [][Next]_vars

\* the auth store driven by login calls only
NextLogins ==
    \/ LoginStart
    \/ LoginComplete

LoginsSpec == Init /\ [][NextLogins]_vars

\* the auth store alone, under every interleaving of its operations
NextAuth ==
    \/ LoginStart
    \/ LoginComplete
    \/ Logout
    \/ SetUser
    \/ ClearError

\* a timer that was set fires: the event loop runs every due callback
FairAuthSpec == Init /\ [][NextAuth]_vars /\ WF_vars(LoginComplete)

-----------------------------------------------------------------------------
(* The views of CounterPanel.tsx.  A view offers a button only when its    *)
(* render of the current store state shows it enabled.                     *)

\* CounterPanel's canDecrease: the selector (s) => s.canDecrease returns the
\* function stored in the state, not the result of calling it
SelectedCanDecrease == [function |-> "canDecrease"]

\* disabled={!canDecrease} of the decrease button
DecreaseDisabled == ~Boolean(SelectedCanDecrease)

\* onClick={decrease}
PressDecrease ==
    /\ ~DecreaseDisabled
    /\ Decrease

\* the login button is rendered in the branch taken when not authenticated
LoginButtonShown == ~auth.isAuthenticated

\* a login button that stays enabled while a login is loading
LoginButtonDisabled_Never == FALSE

\* disabled={isLoading} of the login button
LoginButtonDisabled == auth.isLoading

\* onLogin: login({email, password}) with the current content of the inputs
PressLogin ==
    /\ LoginButtonShown
    /\ ~LoginButtonDisabled
    /\ LoginStart

\* the logout button is rendered in the branch taken when authenticated
PressLogout ==
    /\ auth.isAuthenticated
    /\ Logout

\* {error && ...}: the close button is rendered when error is a non-empty string
PressClose ==
    /\ auth.error # Null
    /\ auth.error # Str("")
    /\ ClearError

\* the stores driven through the two views only
NextView ==
    \/ PressLogin
    \/ LoginComplete
    \/ PressLogout
    \/ PressClose
    \/ Increase
    \/ PressDecrease
    \/ Reset

ViewSpec == Init /\ [][NextView]_vars

-----------------------------------------------------------------------------
(* Properties                                                              *)

TypeOK ==
    /\ auth.user \in {Null, RefUser, OtherUser}
    /\ auth.isAuthenticated \in BOOLEAN
    /\ auth.isLoading \in BOOLEAN
    /\ auth.error \in {Null, InvalidCredentialsMessage, UnknownErrorMessage}
    /\ counter.count \in -MaxCount .. MaxCount
    /\ Len(promise) <= MaxLogins

\* number of login calls whose timer has not fired yet
InFlight == Len(timers)

\* C1: in every reachable state of the auth store, isAuthenticated is true
\* if and only if user is present.
C1_AuthenticatedIffUser == auth.isAuthenticated <=> (auth.user # Null)

\* a login completed while another login was still in flight, and the
\* session is authenticated
C1_Witness ==
    /\ last.op = "loginComplete"
    /\ InFlight >= 1
    /\ auth.isAuthenticated
    /\ auth.user # Null

\* the i-th login call is awaiting fakeLoginApi
Awaiting(i) == \E k \in 1 .. Len(timers) : timers[k].id = i

\* the input the i-th login call was made with, while it is awaiting
InputOf(i) == (CHOOSE t \in {timers[k] : k \in 1 .. Len(timers)} : t.id = i).input

\* the continuation of the i-th login call has run to its end
Completed(i) == i <= Len(promise) /\ promise[i] # "pending"

\* the state the spec gives for a successful login with the test account
AuthenticatedRefState ==
    [user |-> RefUser, isAuthenticated |-> TRUE, isLoading |-> FALSE, error |-> Null]

\* C2: right after the completion of a login made with the reference
\* credentials the state is isAuthenticated=true, user=the test user,
\* isLoading=false and error absent, whatever was interleaved with it.
C2_RefLoginYieldsAuthenticated ==
    (last.op = "loginComplete" /\ last.arg = RefInput) => auth = AuthenticatedRefState

\* C3: a login made with any credentials other than the reference pair
\* eventually completes, and right after its completion the state is
\* isAuthenticated=false, user absent, isLoading=false and error a
\* non-empty message.
C3_BadLoginYieldsError ==
    /\ [](last.op = "loginComplete" /\ last.arg # RefInput =>
            /\ auth.user = Null
            /\ auth.isAuthenticated = FALSE
            /\ auth.isLoading = FALSE
            /\ auth.error # Null
            /\ auth.error # Str(""))
    /\ \A i \in 1 .. MaxLogins :
            (Awaiting(i) /\ InputOf(i) # RefInput) ~> Completed(i)

\* a rejected login completed after a user had been set and another login
\* had been started during its await
C3_Witness ==
    /\ last.op = "loginComplete"
    /\ last.arg # RefInput
    /\ last.pre.auth.user # Null
    /\ InFlight >= 1
    /\ Completed(last.id)

\* the state login(input) leaves when it runs alone from the initial state
LoginAlone(input) == LoginSettle(set(InitialAuthState, LoginStartPatch), input)

\* C4: when a login was invoked while another one was in flight, then once
\* it has completed (the earlier one completes before it) the whole auth
\* state equals the state this last-completing login produces when run
\* alone from the initial state.
C4_LastCompletingLoginWins ==
    (last.op = "loginComplete" /\ last.overlapped) => auth = LoginAlone(last.arg)

\* C5 as stated: once error is present it becomes absent only in a step of
\* clearError or in the start of a new login.
C5_ErrorClearedOnlyByClearErrorOrLogin ==
    (last.pre.auth.error # Null /\ auth.error = Null) =>
        last.op \in {"clearError", "loginStart"}

\* C5 amended: once error is present it becomes absent only in a step of
\* clearError, of logout, or in the start of a new login; setUser and the
\* completion of a login keep it present.
C5_ErrorClearedOnlyByClearErrorLogoutOrLogin ==
    (last.pre.auth.error # Null /\ auth.error = Null) =>
        last.op \in {"clearError", "logout", "loginStart"}

\* logout made a present error absent
C5_Witness ==
    /\ last.op = "logout"
    /\ last.pre.auth.error # Null
    /\ auth.error = Null

\* C6: right after logout, user is absent, isAuthenticated is false and
\* error is absent; and from every reachable state two logouts in a row
\* give the state one logout gives.
C6_LogoutResetsAndIsIdempotent ==
    /\ last.op = "logout" =>
            /\ auth.user = Null
            /\ auth.isAuthenticated = FALSE
            /\ auth.error = Null
    /\ set(set(auth, LogoutPatch), LogoutPatch) = set(auth, LogoutPatch)

\* logout ran in a state with a user and an error message
C6_Witness ==
    /\ last.op = "logout"
    /\ last.pre.auth.user # Null
    /\ last.pre.auth.error # Null
    /\ auth.user = Null

\* C7: the promise returned by a login call is never rejected, every login
\* call eventually fulfils it, and a rejection of fakeLoginApi is recorded
\* in the error field with the message the rejection carries.
C7_LoginAlwaysFulfils ==
    /\ [](\A i \in 1 .. Len(promise) : promise[i] \in {"pending", "fulfilled"})
    /\ \A i \in 1 .. MaxLogins :
            Awaiting(i) ~> (i <= Len(promise) /\ promise[i] = "fulfilled")
    /\ [](last.op = "loginComplete" /\ ~fakeLoginApi(last.arg).resolved =>
            auth.error = fakeLoginApi(last.arg).reason.message)

\* a login that overlapped another one was rejected by fakeLoginApi: its
\* promise is fulfilled and the message is in the state
C7_Witness ==
    /\ last.op = "loginComplete"
    /\ last.overlapped
    /\ ~fakeLoginApi(last.arg).resolved
    /\ promise[last.id] = "fulfilled"
    /\ auth.error = InvalidCredentialsMessage

\* C8: isLoading=true and a present error never hold together.
C8_NeverLoadingWithError == ~(auth.isLoading /\ auth.error # Null)

\* a login was started in a state that showed an error while another login
\* was in flight
C8_Witness ==
    /\ last.op = "loginStart"
    /\ last.overlapped
    /\ last.pre.auth.error # Null
    /\ auth.isLoading

\* C9 as stated: user goes from present to absent only in a step of logout
\* or of setUser(absent).
C9_UserDroppedOnlyByLogoutOrSetUser ==
    (last.pre.auth.user # Null /\ auth.user = Null) =>
        \/ last.op = "logout"
        \/ last.op = "setUser" /\ last.arg = Null

\* C9 amended: user goes from present to absent only in a step of logout,
\* of setUser(absent), or in the completion of a login that fakeLoginApi
\* rejected.
C9_UserDroppedOnlyByLogoutSetUserOrFailedLogin ==
    (last.pre.auth.user # Null /\ auth.user = Null) =>
        \/ last.op = "logout"
        \/ last.op = "setUser" /\ last.arg = Null
        \/ last.op = "loginComplete" /\ ~fakeLoginApi(last.arg).resolved

\* the completion of a rejected login dropped a present user
C9_Witness ==
    /\ last.op = "loginComplete"
    /\ last.pre.auth.user # Null
    /\ auth.user = Null

\* C10: increase yields c+1, decrease yields c-1 also when c <= 0,
\* increaseBy(n) yields c+n, reset yields 0, and the count increaseBy
\* computes from get() is the one the patch-function form
\* set((state) => ({count: state.count + by})) computes.
C10_CounterOperations ==
    LET c == last.pre.counter.count
    IN  /\ last.op = "increase" => counter.count = c + 1
        /\ last.op = "decrease" => counter.count = c - 1
        /\ last.op = "increaseBy" =>
                /\ counter.count = c + last.arg
                /\ counter =
                     set(last.pre.counter, [count |-> last.pre.counter.count + last.arg])
        /\ last.op = "reset" => counter.count = 0

\* decrease ran on a count that was not positive
C10_Witness ==
    /\ last.op = "decrease"
    /\ last.pre.counter.count <= 0
    /\ counter.count = last.pre.counter.count - 1

\* C11: a call of canDecrease() returns true if and only if the current
\* count is greater than 0 and leaves count as it was; it is false in the
\* state right after reset().
C11_CanDecreaseIffPositive ==
    /\ last.op = "canDecrease" =>
            /\ last.arg = (last.pre.counter.count > 0)
            /\ counter = last.pre.counter
    /\ last.op = "reset" => ~canDecrease

\* canDecrease() was called on a count of zero and returned false
C11_Witness ==
    /\ last.op = "canDecrease"
    /\ last.pre.counter.count = 0
    /\ last.arg = FALSE

\* the steps of useAuthStore and the operations of useCounterStore
AuthOps == {"loginStart", "loginComplete", "logout", "setUser", "clearError"}

CounterOps == {"increase", "decrease", "increaseBy", "reset", "canDecrease"}

\* C12: every auth step leaves the counter state, hence the value of a
\* selector on count, unchanged, and every counter operation leaves user,
\* isAuthenticated, isLoading and error unchanged.
C12_ModulesIsolated ==
    /\ last.op \in AuthOps => counter.count = last.pre.counter.count
    /\ last.op \in CounterOps => auth = last.pre.auth

\* logout changed the auth state while the count was not zero
C12_Witness ==
    /\ last.op = "logout"
    /\ auth # last.pre.auth
    /\ counter.count # 0
    /\ counter.count = last.pre.counter.count

\* C13: each auth step leaves the fields its patch does not name as they
\* were: setUser leaves error and isLoading, logout leaves isLoading,
\* clearError leaves user, isAuthenticated and isLoading, login start leaves
\* user and isAuthenticated, login success leaves error.
C13_PatchFrames ==
    LET p == last.pre.auth
    IN  /\ last.op = "setUser" =>
                auth.error = p.error /\ auth.isLoading = p.isLoading
        /\ last.op = "logout" => auth.isLoading = p.isLoading
        /\ last.op = "clearError" =>
                /\ auth.user = p.user
                /\ auth.isAuthenticated = p.isAuthenticated
                /\ auth.isLoading = p.isLoading
        /\ last.op = "loginStart" =>
                auth.user = p.user /\ auth.isAuthenticated = p.isAuthenticated
        /\ (last.op = "loginComplete" /\ fakeLoginApi(last.arg).resolved) =>
                auth.error = p.error

\* clearError ran while a login was in flight and a user was present
C13_Witness ==
    /\ last.op = "clearError"
    /\ last.pre.auth.isLoading
    /\ last.pre.auth.user # Null
    /\ auth.isLoading
    /\ auth.user = last.pre.auth.user

\* C14: from every reachable state and for every user u, setUser(u) then
\* setUser(null) leaves user absent and isAuthenticated=false, and the
\* state right after setUser(u) has user=u and isAuthenticated=true.
C14_SetUserRoundTrip ==
    /\ \A u \in SetUserArgs \ {Null} :
            LET s1 == set(auth, SetUserPatch(u))
                s2 == set(s1, SetUserPatch(Null))
            IN  /\ s1.user = u
                /\ s1.isAuthenticated = TRUE
                /\ s2.user = Null
                /\ s2.isAuthenticated = FALSE
    /\ (last.op = "setUser" /\ last.arg # Null) =>
            auth.user = last.arg /\ auth.isAuthenticated = TRUE
    /\ (last.op = "setUser" /\ last.arg = Null) =>
            auth.user = Null /\ auth.isAuthenticated = FALSE

\* setUser(null) ran in a state whose user had been set
C14_Witness ==
    /\ last.op = "setUser"
    /\ last.arg = Null
    /\ last.pre.auth.user = OtherUser
    /\ auth.user = Null
    /\ auth.isAuthenticated = FALSE

\* the four logical states of the auth session
Anonymous == auth.user = Null /\ ~auth.isLoading /\ auth.error = Null

Authenticating == auth.isLoading /\ auth.error = Null

Authenticated == auth.user # Null /\ auth.isAuthenticated

AnonymousWithError == auth.user = Null /\ auth.error # Null

\* how many of the four logical states the current state satisfies
LogicalStates ==
    Cardinality({i \in 1 .. 4 :
        <<Anonymous, Authenticating, Authenticated, AnonymousWithError>>[i]})

\* C15 as stated: every reachable state satisfies exactly one of the four
\* logical states.
C15_ExactlyOneLogicalState == LogicalStates = 1

\* C15 amended: every reachable state satisfies at least one of the four
\* logical states, and satisfies two of them only when these are
\* Authenticating and Authenticated (a user is present while a login is
\* loading); it never satisfies three.
C15_OneLogicalStateOrLoadingWithUser ==
    /\ LogicalStates >= 1
    /\ LogicalStates # 1 =>
            /\ LogicalStates = 2
            /\ Authenticating
            /\ Authenticated

\* a login was started while a user was present
C15_Witness ==
    /\ last.op = "loginStart"
    /\ Authenticating
    /\ Authenticated

\* C17: isLoading=true implies that a login is in flight; so when no login
\* is in flight isLoading is false.
C17_LoadingImpliesInFlight == auth.isLoading => InFlight >= 1

\* a login is loading after an earlier login has completed, and the state
\* before it had no login in flight
C17_Witness ==
    /\ last.op = "loginStart"
    /\ ~last.overlapped
    /\ Completed(1)
    /\ auth.isLoading
    /\ InFlight = 1

\* C16: in the CounterPanel view decrease is pressed only while
\* canDecrease() is true, so the presses of the view never make count
\* negative.
C16_ViewCountNeverNegative ==
    /\ last.op = "decrease" => last.pre.counter.count > 0
    /\ counter.count >= 0

\* C18: driven through the AuthPanel view, at most one login is in flight and
\* isLoading is true exactly while that login is in flight.
C18_ViewSingleLogin ==
    /\ InFlight <= 1
    /\ auth.isLoading <=> InFlight = 1

\* the login button was pressed again after a rejected login had completed
C18_Witness ==
    /\ last.op = "loginStart"
    /\ last.pre.auth.error # Null
    /\ Completed(1)
    /\ InFlight = 1
    /\ auth.isLoading
====
